---- MODULE Spec2Model ----
(***************************************************************************)
(* Model of scripts/menuconfig.py of Pico-RTOS: the configuration          *)
(* resolution-and-emission pipeline (generate_config, show_config,         *)
(* save_defconfig, load_defconfig, run_guiconfig) over a small file        *)
(* system, and the command line as a whole (main, run_menuconfig).  The    *)
(* path options of an invocation name distinct files.                      *)
(*                                                                         *)
(* A file is a record [exists, lines]; lines is the sequence of the file's *)
(* text lines without their terminating newline.  Text is kept as text:    *)
(* every line is a string built the way the f-strings of the script build  *)
(* it, and read back character by character.                               *)
(*                                                                         *)
(* kconfiglib is an external library.  The operators Kconfig, load_config, *)
(* str_value, write_config and write_min_config model the part of it the   *)
(* script calls, for schemas without dependencies, choices or ranges, in   *)
(* which every symbol has a prompt and a default.  The Kconfig file is     *)
(* kept in parsed form (the sequence of its symbol declarations).  The     *)
(* model assumes "import kconfiglib" succeeds (check_dependencies).        *)
(***************************************************************************)
EXTENDS Integers, Sequences, FiniteSets, TLC

(***************************************************************************)
(* Bounds of the model.                                                    *)
(***************************************************************************)
\* Commands run one after the other in one behaviour.
MaxSteps == 2
\* Invocations in one behaviour of the command line as a whole.
MaxInvocations == 1
\* A write that fails leaves at most this many lines of the new content.
MaxTorn == 1

(***************************************************************************)
(* Constants of the script.                                                *)
(***************************************************************************)
PICO_RTOS_VERSION == "0.3.1"
\* SCRIPT_DIR.parent: a directory of the machine the script runs on.
PROJECT_ROOT == "/pico-rtos"
DEFAULT_CONFIG_FILE == ".config"
DEFAULT_CMAKE_FILE == "cmake_config.cmake"
DEFAULT_HEADER_FILE == "include/pico_rtos_config.h"
KCONFIG_PATH == "Kconfig"
ROOT_DEFCONFIG == "defconfig"
CONFIG_DEFCONFIG == "config/defconfig"

\* kconfiglib's symbol types.
BOOL == "bool"
TRISTATE == "tristate"
INT == "int"
HEX == "hex"
\* kconfiglib.STRING (STRING is a TLA+ keyword).
STRING_TYPE == "string"

(***************************************************************************)
(* Text.                                                                   *)
(***************************************************************************)
Char(s, i) == SubSeq(s, i, i)

StartsWith(s, p) == Len(s) >= Len(p) /\ SubSeq(s, 1, Len(p)) = p

From(s, i) == SubSeq(s, i, Len(s))

\* The characters str.strip() and str.rstrip() remove (the line terminator
\* is not part of a line here).
Whitespace == {" ", "\t"}

RECURSIVE lstrip(_)
lstrip(s) ==
    IF Len(s) > 0 /\ Char(s, 1) \in Whitespace THEN lstrip(From(s, 2)) ELSE s

RECURSIVE rstrip(_)
rstrip(s) ==
    IF Len(s) > 0 /\ Char(s, Len(s)) \in Whitespace
    THEN rstrip(SubSeq(s, 1, Len(s) - 1))
    ELSE s

strip(s) == lstrip(rstrip(s))

\* The first position >= i of s that holds c, or 0.
RECURSIVE Find(_, _, _)
Find(s, c, i) ==
    IF i > Len(s) THEN 0
    ELSE IF Char(s, i) = c THEN i
    ELSE Find(s, c, i + 1)

Digits == {"0", "1", "2", "3", "4", "5", "6", "7", "8", "9"}
HexDigits == Digits \cup {"a", "b", "c", "d", "e", "f", "A", "B", "C", "D", "E", "F"}

RECURSIVE AllIn(_, _)
AllIn(s, set) ==
    Len(s) = 0 \/ (Char(s, 1) \in set /\ AllIn(From(s, 2), set))

\* kconfiglib._is_base_n: int(s, n) does not raise (unsigned literals, and
\* the 0x prefix in base 16).
IsBaseN(s, n) ==
    IF n = 16
    THEN LET d == IF StartsWith(s, "0x") \/ StartsWith(s, "0X") THEN From(s, 3) ELSE s
         IN  Len(d) > 0 /\ AllIn(d, HexDigits)
    ELSE Len(s) > 0 /\ AllIn(s, Digits)

\* kconfiglib.escape: a backslash before every double quote and backslash.
RECURSIVE escape(_)
escape(s) ==
    IF Len(s) = 0 THEN ""
    ELSE IF Char(s, 1) \in {"\"", "\\"}
         THEN "\\" \o Char(s, 1) \o escape(From(s, 2))
         ELSE Char(s, 1) \o escape(From(s, 2))

\* kconfiglib.unescape: a backslash and the character after it become that
\* character.
RECURSIVE unescape(_)
unescape(s) ==
    IF Len(s) = 0 THEN ""
    ELSE IF Char(s, 1) = "\\" /\ Len(s) >= 2
         THEN Char(s, 2) \o unescape(From(s, 3))
         ELSE Char(s, 1) \o unescape(From(s, 2))

\* The position of the quote closing the string literal that opens at
\* position 1 of s, or 0: the match of "((?:[^\\"]|\\.)*)" at the start of s.
RECURSIVE ClosingQuote(_, _)
ClosingQuote(s, i) ==
    IF i > Len(s) THEN 0
    ELSE IF Char(s, i) = "\"" THEN i
    ELSE IF Char(s, i) = "\\"
         THEN (IF i + 1 > Len(s) THEN 0 ELSE ClosingQuote(s, i + 2))
         ELSE ClosingQuote(s, i + 1)

(***************************************************************************)
(* Files and paths.                                                        *)
(***************************************************************************)
Absent == [exists |-> FALSE, lines |-> <<>>]

File(lines) == [exists |-> TRUE, lines |-> lines]

\* str() of a path under the project root.
PathStr(p) == PROJECT_ROOT \o "/" \o p

get_config_file(CONFIG_FILE) ==
    IF CONFIG_FILE # "" THEN CONFIG_FILE ELSE DEFAULT_CONFIG_FILE

get_cmake_config_file(CMAKE_CONFIG_FILE) ==
    IF CMAKE_CONFIG_FILE # "" THEN CMAKE_CONFIG_FILE ELSE DEFAULT_CMAKE_FILE

get_header_config_file(HEADER_CONFIG_FILE) ==
    IF HEADER_CONFIG_FILE # "" THEN HEADER_CONFIG_FILE ELSE DEFAULT_HEADER_FILE

\* The path options of one invocation ("" is an option not given): none,
\* and the example of the script's help text.
PathArgs ==
    { [config_file |-> "", cmake_file |-> "", header_file |-> ""],
      [config_file |-> "config/.config",
       cmake_file |-> "config/cmake_config.cmake",
       header_file |-> ""] }

Paths ==
    {ROOT_DEFCONFIG, CONFIG_DEFCONFIG}
        \cup {get_config_file(a.config_file) : a \in PathArgs}
        \cup {get_cmake_config_file(a.cmake_file) : a \in PathArgs}
        \cup {get_header_config_file(a.header_file) : a \in PathArgs}

(***************************************************************************)
(* kconfiglib: the schema session.                                         *)
(*                                                                         *)
(* A Kconfig file holds symbol declarations [name, type, default].  A      *)
(* session kconf is [syms, user]: the declarations in declaration order,   *)
(* and per symbol the value a configuration file gave it, if any.          *)
(***************************************************************************)
NoValue == [set |-> FALSE, val |-> ""]

UserValue(v) == [set |-> TRUE, val |-> v]

\* kconfiglib.Kconfig(filename): the schema with no user value.
Kconfig(k) == [syms |-> k.syms, user |-> [i \in 1..Len(k.syms) |-> NoValue]]

\* Kconfig.syms.get(name): the index of the symbol called name, or 0.
get_sym(kconf, name) ==
    IF \E i \in 1..Len(kconf.syms) : kconf.syms[i].name = name
    THEN CHOOSE i \in 1..Len(kconf.syms) : kconf.syms[i].name = name
    ELSE 0

\* Symbol.str_value of the i-th symbol: its user value, else its default.
str_value(kconf, i) ==
    IF kconf.user[i].set THEN kconf.user[i].val ELSE kconf.syms[i].default

\* Symbol.set_value: a value that is not valid for the type is ignored.
set_value(kconf, i, val) ==
    LET t == kconf.syms[i].type
        valid == \/ t = BOOL /\ val \in {"y", "n"}
                 \/ t = TRISTATE /\ val \in {"y", "m", "n"}
                 \/ t = STRING_TYPE
                 \/ t = INT /\ IsBaseN(val, 10)
                 \/ t = HEX /\ IsBaseN(val, 16)
    IN  IF valid
        THEN [kconf EXCEPT !.user[i] = UserValue(val)]
        ELSE kconf

\* One line of a configuration file, as Kconfig._load_config reads it:
\* CONFIG_<name>=<value>, or "# CONFIG_<name> is not set"; any other line
\* (comments and blank lines among them) assigns nothing.
load_line(kconf, raw) ==
    LET line == rstrip(raw)
        eq == Find(line, "=", 8)
        isSet == StartsWith(line, "CONFIG_") /\ eq > 8
        sp == Find(line, " ", 10)
        isUnset == /\ ~isSet
                   /\ StartsWith(line, "# CONFIG_")
                   /\ sp > 10
                   /\ StartsWith(From(line, sp), " is not set")
    IN  IF isSet
        THEN LET name == SubSeq(line, 8, eq - 1)
                 val == From(line, eq + 1)
                 i == get_sym(kconf, name)
             IN  IF i = 0 THEN kconf
                 ELSE LET t == kconf.syms[i].type
                      IN  IF t \in {BOOL, TRISTATE}
                          THEN \* only the first character of the value counts
                               IF \/ t = BOOL /\ Len(val) > 0 /\ Char(val, 1) \in {"y", "n"}
                                  \/ t = TRISTATE /\ Len(val) > 0
                                        /\ Char(val, 1) \in {"y", "m", "n"}
                               THEN set_value(kconf, i, Char(val, 1))
                               ELSE kconf
                          ELSE IF t = STRING_TYPE
                          THEN LET q == IF StartsWith(val, "\"")
                                        THEN ClosingQuote(val, 2)
                                        ELSE 0
                               IN  IF q = 0 THEN kconf
                                   ELSE set_value(kconf, i,
                                                  unescape(SubSeq(val, 2, q - 1)))
                          ELSE set_value(kconf, i, val)
        ELSE IF isUnset
        THEN LET i == get_sym(kconf, SubSeq(line, 10, sp - 1))
             IN  IF i = 0 THEN kconf
                 ELSE IF kconf.syms[i].type \in {BOOL, TRISTATE}
                 THEN set_value(kconf, i, "n")
                 ELSE kconf
        ELSE kconf

RECURSIVE load_lines(_, _)
load_lines(kconf, lines) ==
    IF lines = <<>> THEN kconf
    ELSE load_lines(load_line(kconf, Head(lines)), Tail(lines))

\* Kconfig.load_config(filename): the user values are those of the file
\* alone (replace=True); a later assignment of a symbol wins.
load_config(kconf, lines) ==
    load_lines([kconf EXCEPT !.user = [i \in 1..Len(kconf.syms) |-> NoValue]],
               lines)

\* Symbol.config_string without its newline: the symbol's line in a
\* configuration file.
config_string(kconf, i) ==
    LET sym == kconf.syms[i]
        val == str_value(kconf, i)
    IN  IF sym.type \in {BOOL, TRISTATE}
        THEN IF val = "n"
             THEN "# CONFIG_" \o sym.name \o " is not set"
             ELSE "CONFIG_" \o sym.name \o "=" \o val
        ELSE IF sym.type = STRING_TYPE
        THEN "CONFIG_" \o sym.name \o "=\"" \o escape(val) \o "\""
        ELSE "CONFIG_" \o sym.name \o "=" \o val

\* Kconfig.write_config(filename): every symbol's line, in declaration
\* order (no header: KCONFIG_CONFIG_HEADER is not set).
write_config(kconf) ==
    [i \in 1..Len(kconf.syms) |-> config_string(kconf, i)]

\* The indices i <= n of the symbols whose value is not their default.
RECURSIVE ChangedSyms(_, _)
ChangedSyms(kconf, n) ==
    IF n = 0 THEN <<>>
    ELSE IF str_value(kconf, n) # kconf.syms[n].default
         THEN Append(ChangedSyms(kconf, n - 1), n)
         ELSE ChangedSyms(kconf, n - 1)

\* Kconfig.write_min_config(filename): the lines of the symbols whose value
\* differs from the default they would get without a user value.
write_min_config(kconf) ==
    LET changed == ChangedSyms(kconf, Len(kconf.syms))
    IN  [j \in 1..Len(changed) |-> config_string(kconf, changed[j])]

\* The resolved configuration: the value of every symbol, in order.
Resolved(kconf) == [i \in 1..Len(kconf.syms) |-> str_value(kconf, i)]

(***************************************************************************)
(* scripts/menuconfig.py: the two renderers of generate_config.            *)
(***************************************************************************)
\* cmake_line with a slip: a switch is ON unless it is "n", so that a
\* TRISTATE at "m" is ON.
CMakeLineOnUnlessN(kconf, i) ==
    LET sym == kconf.syms[i]
        v == str_value(kconf, i)
    IN  IF sym.type \in {BOOL, TRISTATE}
        THEN IF v # "n"
             THEN "set(CONFIG_" \o sym.name \o " ON)"
             ELSE "set(CONFIG_" \o sym.name \o " OFF)"
        ELSE IF sym.type \in {INT, HEX}
        THEN "set(CONFIG_" \o sym.name \o " " \o v \o ")"
        ELSE "set(CONFIG_" \o sym.name \o " \"" \o v \o "\")"

\* The line of the i-th symbol in the CMake file.
cmake_line(kconf, i) ==
    LET sym == kconf.syms[i]
        v == str_value(kconf, i)
    IN  IF sym.type \in {BOOL, TRISTATE}
        THEN IF v = "y"
             THEN "set(CONFIG_" \o sym.name \o " ON)"
             ELSE "set(CONFIG_" \o sym.name \o " OFF)"
        ELSE IF sym.type \in {INT, HEX}
        THEN "set(CONFIG_" \o sym.name \o " " \o v \o ")"
        ELSE "set(CONFIG_" \o sym.name \o " \"" \o v \o "\")"

CMakeBanner ==
    << "# Generated CMake configuration for Pico-RTOS v" \o PICO_RTOS_VERSION,
       "# This file is auto-generated. Do not edit manually.",
       "" >>

\* cmake_text with a slip: only the symbols whose value is not the schema's
\* default get a line, as in a minimal configuration.
CMakeTextChangedOnly(kconf) ==
    LET changed == ChangedSyms(kconf, Len(kconf.syms))
    IN  CMakeBanner \o [j \in 1..Len(changed) |-> cmake_line(kconf, changed[j])]

\* Everything generate_config writes to the CMake file.
cmake_text(kconf) ==
    CMakeBanner \o [i \in 1..Len(kconf.syms) |-> cmake_line(kconf, i)]

\* header_line with a slip: the TRISTATE branch tests only for "n", so
\* that "m" defines the base macro like "y".
HeaderLineModuleAsBuiltIn(kconf, i) ==
    LET sym == kconf.syms[i]
        v == str_value(kconf, i)
    IN  IF sym.type \in {BOOL, TRISTATE}
        THEN IF v # "n"
             THEN "#define CONFIG_" \o sym.name \o " 1"
             ELSE "/* #undef CONFIG_" \o sym.name \o " */"
        ELSE IF sym.type \in {INT, HEX}
        THEN "#define CONFIG_" \o sym.name \o " " \o v
        ELSE "#define CONFIG_" \o sym.name \o " \"" \o v \o "\""

\* The line of the i-th symbol in the C header.
header_line(kconf, i) ==
    LET sym == kconf.syms[i]
        v == str_value(kconf, i)
    IN  IF sym.type = BOOL
        THEN IF v = "y"
             THEN "#define CONFIG_" \o sym.name \o " 1"
             ELSE "/* #undef CONFIG_" \o sym.name \o " */"
        ELSE IF sym.type = TRISTATE
        THEN IF v = "y"
             THEN "#define CONFIG_" \o sym.name \o " 1"
             ELSE IF v = "m"
             THEN "#define CONFIG_" \o sym.name \o "_MODULE 1"
             ELSE "/* #undef CONFIG_" \o sym.name \o " */"
        ELSE IF sym.type \in {INT, HEX}
        THEN "#define CONFIG_" \o sym.name \o " " \o v
        ELSE "#define CONFIG_" \o sym.name \o " \"" \o v \o "\""

HeaderBanner ==
    << "/* Generated configuration header for Pico-RTOS v" \o PICO_RTOS_VERSION \o " */",
       "/* This file is auto-generated. Do not edit manually. */",
       "",
       "#ifndef PICO_RTOS_CONFIG_H",
       "#define PICO_RTOS_CONFIG_H",
       "" >>

HeaderFooter == << "", "#endif /* PICO_RTOS_CONFIG_H */" >>

\* Everything generate_config writes to the C header.
header_text(kconf) ==
    HeaderBanner \o [i \in 1..Len(kconf.syms) |-> header_line(kconf, i)]
        \o HeaderFooter

(***************************************************************************)
(* Writing a file.  open(path, 'w') truncates the file and the writes      *)
(* replace its content.  A write can fail: io names the place (NoFault,    *)
(* or the open or the write of one of the files a command writes) and, for *)
(* a failed write, how many lines of the new content reached the file.     *)
(***************************************************************************)
NoFault == [at |-> "none", torn |-> 0]

Min(a, b) == IF a < b THEN a ELSE b

\* The file a failed write of lines leaves behind.
Torn(lines, io) == File(SubSeq(lines, 1, Min(io.torn, Len(lines))))

\* What a command returns to main and leaves behind: its result, the
\* file system, what it printed, and the fault it ran into.
Result(ok, files, out, fault) ==
    [ok |-> ok, fs |-> files, out |-> out, fault |-> fault]

IOError == "[Errno 5] Input/output error"

(***************************************************************************)
(* scripts/menuconfig.py: the commands.  Each takes the file system, the   *)
(* Kconfig file k, the path options of the invocation and the fault the    *)
(* run meets, and gives a Result.                                          *)
(***************************************************************************)
\* kconfig_file_exists with a slip: the test is left out.
KconfigAssumed(k) == TRUE

\* kconfig_file.exists(): the test every command makes before it loads
\* the schema.
kconfig_file_exists(k) == k.exists

\* write_file with a slip: the file is opened with 'a', and the lines are
\* added to what it held.
AppendFile(files, path, lines) ==
    [files EXCEPT ![path] = File(files[path].lines \o lines)]

\* with open(path, 'w') as f: f.write(...): the file holds lines and
\* nothing else.
write_file(files, path, lines) == [files EXCEPT ![path] = File(lines)]

\* generate_kconf with a slip: without a configuration file it loads the
\* defconfig of the project root, as load_defconfig would.
GenerateKconfFromDefconfig(files, k, config_file) ==
    IF files[config_file].exists
    THEN load_config(Kconfig(k), files[config_file].lines)
    ELSE IF files[ROOT_DEFCONFIG].exists
    THEN load_config(Kconfig(k), files[ROOT_DEFCONFIG].lines)
    ELSE Kconfig(k)

\* generate_config's session: the schema, with the configuration file
\* loaded when there is one.
generate_kconf(files, k, config_file) ==
    IF files[config_file].exists
    THEN load_config(Kconfig(k), files[config_file].lines)
    ELSE Kconfig(k)

\* find_defconfig with a slip: the two places are tried in the other order.
FindDefconfigRootFirst(files) ==
    IF files[ROOT_DEFCONFIG].exists THEN ROOT_DEFCONFIG ELSE CONFIG_DEFCONFIG

\* load_defconfig's choice of the minimal configuration: config/defconfig,
\* and the defconfig of the project root when that is not there.
find_defconfig(files) ==
    IF files[CONFIG_DEFCONFIG].exists THEN CONFIG_DEFCONFIG ELSE ROOT_DEFCONFIG

\* save_defconfig_file with a slip: the place load_defconfig tries first.
SaveToConfigDefconfig == CONFIG_DEFCONFIG

\* save_defconfig_file with a slip: write_min_config is given the
\* configuration file it has just loaded.
SaveToConfigFile == DEFAULT_CONFIG_FILE

\* save_defconfig's target.
save_defconfig_file == ROOT_DEFCONFIG

KconfigNotFound ==
    << "Error: Kconfig file not found at " \o PathStr(KCONFIG_PATH) >>

generate_config(files, k, args, io) ==
    LET config_file == get_config_file(args.config_file)
        cmake_config == get_cmake_config_file(args.cmake_file)
        header_file == get_header_config_file(args.header_file)
    IN  IF ~kconfig_file_exists(k)
        THEN Result(FALSE, files, KconfigNotFound, NoFault)
        ELSE
        LET kconf == generate_kconf(files, k, config_file)
            warn == IF files[config_file].exists
                    THEN <<>>
                    ELSE << "Warning: " \o PathStr(config_file)
                                \o " not found, using defaults" >>
            failed == warn \o << "Error generating configuration: " \o IOError >>
            fs1 == write_file(files, cmake_config, cmake_text(kconf))
            fs2 == write_file(fs1, header_file, header_text(kconf))
        IN  IF io.at = "cmake_open"
            THEN Result(FALSE, files, failed, io)
            ELSE IF io.at = "cmake_write"
            THEN Result(FALSE,
                        [files EXCEPT ![cmake_config] = Torn(cmake_text(kconf), io)],
                        failed, io)
            ELSE IF io.at = "header_open"
            THEN Result(FALSE, fs1, failed, io)
            ELSE IF io.at = "header_write"
            THEN Result(FALSE,
                        [fs1 EXCEPT ![header_file] = Torn(header_text(kconf), io)],
                        failed, io)
            ELSE Result(TRUE, fs2,
                        warn \o << "Configuration files generated successfully:",
                                   "  - " \o PathStr(cmake_config),
                                   "  - " \o PathStr(header_file) >>,
                        NoFault)

\* shown_lines with a slip: the test is made on the stripped line and the
\* line is printed as read.
RECURSIVE ShownLinesUnstripped(_)
ShownLinesUnstripped(lines) ==
    IF lines = <<>> THEN <<>>
    ELSE LET line == strip(Head(lines))
         IN  IF line # "" /\ ~StartsWith(line, "#")
             THEN <<Head(lines)>> \o ShownLinesUnstripped(Tail(lines))
             ELSE ShownLinesUnstripped(Tail(lines))

\* The lines show_config prints of a configuration file.
RECURSIVE shown_lines(_)
shown_lines(lines) ==
    IF lines = <<>> THEN <<>>
    ELSE LET line == strip(Head(lines))
         IN  IF line # "" /\ ~StartsWith(line, "#")
             THEN <<line>> \o shown_lines(Tail(lines))
             ELSE shown_lines(Tail(lines))

ShowBanner(config_file) ==
    << "Pico-RTOS v" \o PICO_RTOS_VERSION \o " Configuration:",
       "Config file: " \o PathStr(config_file),
       "==================================================" >>

show_config(files, args) ==
    LET config_file == get_config_file(args.config_file)
    IN  IF ~files[config_file].exists
        THEN Result(FALSE, files,
                    << "No configuration found at " \o PathStr(config_file)
                           \o ". Run 'make menuconfig' first." >>,
                    NoFault)
        ELSE Result(TRUE, files,
                    ShowBanner(config_file)
                        \o shown_lines(files[config_file].lines),
                    NoFault)

save_defconfig(files, k, args, io) ==
    LET config_file == get_config_file(args.config_file)
        defconfig_file == save_defconfig_file
    IN  IF ~kconfig_file_exists(k)
        THEN Result(FALSE, files, KconfigNotFound, NoFault)
        ELSE IF ~files[config_file].exists
        THEN Result(FALSE, files,
                    << "Error: " \o PathStr(config_file) \o " not found" >>,
                    NoFault)
        ELSE
        LET kconf == load_config(Kconfig(k), files[config_file].lines)
            failed == << "Error saving defconfig: " \o IOError >>
        IN  IF io.at = "defconfig_open"
            THEN Result(FALSE, files, failed, io)
            ELSE IF io.at = "defconfig_write"
            THEN Result(FALSE,
                        [files EXCEPT ![defconfig_file] =
                                          Torn(write_min_config(kconf), io)],
                        failed, io)
            ELSE Result(TRUE,
                        write_file(files, defconfig_file, write_min_config(kconf)),
                        << "Minimal configuration saved to "
                               \o PathStr(defconfig_file) >>,
                        NoFault)

load_defconfig(files, k, args, io) ==
    LET config_file == get_config_file(args.config_file)
        defconfig_file == find_defconfig(files)
    IN  IF ~kconfig_file_exists(k)
        THEN Result(FALSE, files, KconfigNotFound, NoFault)
        ELSE
        LET kconf == IF files[defconfig_file].exists
                     THEN load_config(Kconfig(k), files[defconfig_file].lines)
                     ELSE Kconfig(k)
            loaded == IF files[defconfig_file].exists
                      THEN << "Configuration loaded from " \o PathStr(defconfig_file) >>
                      ELSE << "No defconfig found, using Kconfig defaults" >>
            failed == loaded \o << "Error loading defconfig: " \o IOError >>
            fs1 == write_file(files, config_file, write_config(kconf))
            gen == generate_config(fs1, k, args, io)
        IN  IF io.at = "config_open"
            THEN Result(FALSE, files, failed, io)
            ELSE IF io.at = "config_write"
            THEN Result(FALSE,
                        [files EXCEPT ![config_file] = Torn(write_config(kconf), io)],
                        failed, io)
            ELSE Result(gen.ok, gen.fs,
                        loaded
                            \o << "Configuration written to " \o PathStr(config_file) >>
                            \o gen.out,
                        gen.fault)

\* run_guiconfig: kconfiglib's guiconfig loads the configuration file, if
\* there is one, and the operator edits it.  edit is what the operator does:
\* [sym, val] gives the sym-th symbol the value val and saves; sym = 0 quits
\* without saving.
run_guiconfig(files, k, args, edit) ==
    LET config_file == get_config_file(args.config_file)
    IN  IF ~kconfig_file_exists(k)
        THEN Result(FALSE, files, KconfigNotFound, NoFault)
        ELSE
        LET kconf == IF files[config_file].exists
                     THEN load_config(Kconfig(k), files[config_file].lines)
                     ELSE Kconfig(k)
        IN  IF edit.sym = 0
            THEN Result(TRUE, files, <<>>, NoFault)
            ELSE Result(TRUE,
                        write_file(files, config_file,
                                   write_config(set_value(kconf, edit.sym, edit.val))),
                        <<>>, NoFault)

\* What parser.parse_args() prints before it leaves the process with exit
\* code 2: the script's parser has options only, and argv holds a path.
UnrecognizedArguments ==
    << "menuconfig: error: unrecognized arguments: " \o PathStr(KCONFIG_PATH) >>

\* The exit of parse_args, raised as SystemExit through every caller.
ParseArgsExit == [at |-> "parse_args", torn |-> 0]

\* run_menuconfig: "import menuconfig" takes the first menuconfig module on
\* sys.path.  The script is itself scripts/menuconfig.py, so when its own
\* directory comes first (script_dir_first, as it does when the file is run
\* as a script) the module imported is the script, menuconfig.main() is the
\* script's main, and its parse_args meets the Kconfig path that
\* run_menuconfig has put in sys.argv and exits; SystemExit is no Exception
\* and passes the except clause.  Otherwise the module is kconfiglib's
\* editor, which loads the configuration file, if there is one, and lets the
\* operator edit it as in run_guiconfig.
run_menuconfig(files, k, args, edit, script_dir_first) ==
    LET config_file == get_config_file(args.config_file)
    IN  IF ~kconfig_file_exists(k)
        THEN Result(FALSE, files, KconfigNotFound, NoFault)
        ELSE IF script_dir_first
        THEN Result(FALSE, files, UnrecognizedArguments, ParseArgsExit)
        ELSE
        LET kconf == IF files[config_file].exists
                     THEN load_config(Kconfig(k), files[config_file].lines)
                     ELSE Kconfig(k)
        IN  IF edit.sym = 0
            THEN Result(TRUE, files, <<>>, NoFault)
            ELSE Result(TRUE,
                        write_file(files, config_file,
                                   write_config(set_value(kconf, edit.sym, edit.val))),
                        <<>>, NoFault)

\* main's action options.
ActionFlags == {"gui", "generate", "show", "savedefconfig", "defconfig"}

\* main's if/elif chain over the action options given: the command run.
dispatch(given) ==
    IF "gui" \in given THEN "gui"
    ELSE IF "generate" \in given THEN "generate"
    ELSE IF "show" \in given THEN "show"
    ELSE IF "savedefconfig" \in given THEN "savedefconfig"
    ELSE IF "defconfig" \in given THEN "defconfig"
    ELSE "menuconfig"

\* sys.exit(main()): the exit code of the process.  main returns 0 or 1
\* for the command's result; a SystemExit raised inside the command ends
\* the process with its own code.
exit_code(r) ==
    IF r.fault = ParseArgsExit THEN 2
    ELSE IF r.ok THEN 0 ELSE 1

(***************************************************************************)
(* The schemas, the files found at the start and the operator's edits the  *)
(* model runs over.                                                        *)
(***************************************************************************)
Sym(name, type, default) == [name |-> name, type |-> type, default |-> default]

\* The schema of the specification's example.
ExampleSchema ==
    << Sym("BUILD_EXAMPLES", BOOL, "n"),
       Sym("MAX_TASKS", INT, "8"),
       Sym("DEVICE_NAME", STRING_TYPE, "pico") >>

\* A schema with a tristate driver, a bool whose name is the driver's name
\* followed by _MODULE, and a hex value.
DriverSchema ==
    << Sym("DRIVER_X", TRISTATE, "n"),
       Sym("DRIVER_X_MODULE", BOOL, "y"),
       Sym("STACK_BASE", HEX, "0x2000") >>

Schemas == {ExampleSchema, DriverSchema}

NoKconfig == [exists |-> FALSE, syms |-> <<>>]

\* Hand-edited configuration files: comments, a blank line, an indented
\* comment, trailing and leading white space, an escaped string, a symbol
\* no schema has, a value that is no number.
EditedConfig ==
    << "# Pico-RTOS configuration",
       "",
       "CONFIG_BUILD_EXAMPLES=y",
       "  # tuned for the demo board",
       "CONFIG_MAX_TASKS=16 ",
       "CONFIG_DEVICE_NAME=\"my \\\"rtos\\\"\"",
       "\tCONFIG_ENABLE_DEBUG=y",
       "CONFIG_DRIVER_X=m",
       "# CONFIG_DRIVER_X_MODULE is not set" >>

OtherConfig ==
    << "CONFIG_DRIVER_X=y",
       "CONFIG_STACK_BASE=0x4000",
       "CONFIG_MAX_TASKS=many",
       "CONFIG_DEVICE_NAME=\"pico2\"" >>

RootDefconfig == << "CONFIG_BUILD_EXAMPLES=y", "CONFIG_DRIVER_X=y" >>

NestedDefconfig ==
    << "CONFIG_MAX_TASKS=32",
       "CONFIG_DRIVER_X=m",
       "# CONFIG_DRIVER_X_MODULE is not set" >>

Stale == << "left over from an earlier build" >>

\* The file systems a run can start from: no configuration file or one of
\* the two; no defconfig, the one of the project root, or both; where a
\* defconfig exists, artifacts of an earlier build lie at the default
\* places.
InitialFiles ==
    { [p \in Paths |->
          IF p = DEFAULT_CONFIG_FILE THEN c
          ELSE IF p = ROOT_DEFCONFIG THEN d[1]
          ELSE IF p = CONFIG_DEFCONFIG THEN d[2]
          ELSE IF p \in {DEFAULT_CMAKE_FILE, DEFAULT_HEADER_FILE} THEN d[3]
          ELSE Absent] :
        c \in {Absent, File(EditedConfig), File(OtherConfig)},
        d \in { <<Absent, Absent, Absent>>,
                <<File(RootDefconfig), Absent, File(Stale)>>,
                <<File(RootDefconfig), File(NestedDefconfig), File(Stale)>> } }

\* The values the operator gives a symbol in the editor.
EditValues(type) ==
    IF type = BOOL THEN {"y", "n"}
    ELSE IF type = TRISTATE THEN {"y", "m", "n"}
    ELSE IF type = INT THEN {"16"}
    ELSE IF type = HEX THEN {"0x4000"}
    ELSE {"say \"hi\""}

Quit == [sym |-> 0, val |-> ""]

Edits(k) ==
    {Quit} \cup
    UNION { {[sym |-> i, val |-> v] : v \in EditValues(k.syms[i].type)} :
            i \in 1..Len(k.syms) }

Fault(at, torn) == [at |-> at, torn |-> torn]

FaultsAt(opens, writes) ==
    {NoFault} \cup {Fault(a, 0) : a \in opens}
              \cup {Fault(a, t) : a \in writes, t \in 0..MaxTorn}

GenerateFaults == FaultsAt({"cmake_open", "header_open"}, {"cmake_write", "header_write"})

SaveFaults == FaultsAt({"defconfig_open"}, {"defconfig_write"})

LoadFaults == GenerateFaults \cup FaultsAt({"config_open"}, {"config_write"})

(***************************************************************************)
(* The state.                                                              *)
(*   kconfig  the Kconfig file at the project root                         *)
(*   fs       the other files under the project root, by path              *)
(*   last     the command that ran last: its name, path options, result,   *)
(*            output, the fault it met and the file system it started from *)
(*   prev     the command before it: name, path options, result            *)
(*   written  the paths written by commands that succeeded                 *)
(*   steps    the number of commands run                                   *)
(*   flags    the action options of the last invocation                    *)
(*   exit     the exit code of the last invocation (-1: none yet)          *)
(***************************************************************************)
VARIABLES kconfig, fs, last, prev, written, steps, flags, exit

vars == <<kconfig, fs, last, prev, written, steps, flags, exit>>

NoArgs == [config_file |-> "", cmake_file |-> "", header_file |-> ""]

Init ==
    /\ kconfig \in {NoKconfig} \cup {[exists |-> TRUE, syms |-> s] : s \in Schemas}
    /\ fs \in InitialFiles
    /\ last = [cmd |-> "none", args |-> NoArgs, fault |-> NoFault, ok |-> TRUE,
               out |-> <<>>, pre |-> fs]
    /\ prev = [cmd |-> "none", args |-> NoArgs, ok |-> TRUE]
    /\ written = {}
    /\ steps = 0
    /\ flags = {}
    /\ exit = -1

\* One invocation of the script with the action options given and the path
\* options args: main has run the command cmd, which gave r and writes the
\* paths wrote when nothing fails.
Invoked(given, cmd, args, r, wrote) ==
    /\ fs' = r.fs
    /\ last' = [cmd |-> cmd, args |-> args, fault |-> r.fault, ok |-> r.ok,
                out |-> r.out, pre |-> fs]
    /\ prev' = [cmd |-> last.cmd, args |-> last.args, ok |-> last.ok]
    /\ written' = IF r.ok THEN written \cup wrote ELSE written
    /\ steps' = steps + 1
    /\ flags' = given
    /\ exit' = exit_code(r)
    /\ UNCHANGED kconfig

\* An invocation with the one action option of the command cmd.  The
\* invocations of one run come from one build, which passes the same path
\* options every time.
Ran(cmd, args, r, wrote) ==
    /\ steps < MaxSteps
    /\ last.cmd = "none" \/ args = last.args
    /\ Invoked({cmd}, cmd, args, r, wrote)

Generate ==
    \E args \in PathArgs, io \in GenerateFaults :
        Ran("generate", args, generate_config(fs, kconfig, args, io),
            {get_cmake_config_file(args.cmake_file),
             get_header_config_file(args.header_file)})

Show ==
    \E args \in PathArgs :
        Ran("show", args, show_config(fs, args), {})

SaveMinimal ==
    \E args \in PathArgs, io \in SaveFaults :
        Ran("savedefconfig", args, save_defconfig(fs, kconfig, args, io),
            {ROOT_DEFCONFIG})

LoadMinimal ==
    \E args \in PathArgs, io \in LoadFaults :
        Ran("defconfig", args, load_defconfig(fs, kconfig, args, io),
            {get_config_file(args.config_file),
             get_cmake_config_file(args.cmake_file),
             get_header_config_file(args.header_file)})

GuiConfig ==
    \E args \in PathArgs, edit \in Edits(kconfig) :
        Ran("gui", args, run_guiconfig(fs, kconfig, args, edit),
            IF edit.sym = 0 THEN {} ELSE {get_config_file(args.config_file)})

Next == Generate \/ Show \/ SaveMinimal \/ LoadMinimal \/ GuiConfig

Spec == Init /\ [][Next]_vars

(***************************************************************************)
(* The command line as a whole: one invocation of the script with any set  *)
(* of action options, from any of the starting states.                     *)
(***************************************************************************)
\* The runs the command cmd can take from the current state: one for each
\* fault it can meet, edit the operator can make, and order of sys.path.
Runs(cmd, args) ==
    LET config_file == get_config_file(args.config_file)
        cmake_config == get_cmake_config_file(args.cmake_file)
        header_file == get_header_config_file(args.header_file)
        saved(edit) == IF edit.sym = 0 THEN {} ELSE {config_file}
    IN  IF cmd = "gui"
        THEN {[r |-> run_guiconfig(fs, kconfig, args, edit), wrote |-> saved(edit)] :
                 edit \in Edits(kconfig)}
        ELSE IF cmd = "generate"
        THEN {[r |-> generate_config(fs, kconfig, args, io),
               wrote |-> {cmake_config, header_file}] : io \in GenerateFaults}
        ELSE IF cmd = "show"
        THEN {[r |-> show_config(fs, args), wrote |-> {}]}
        ELSE IF cmd = "savedefconfig"
        THEN {[r |-> save_defconfig(fs, kconfig, args, io),
               wrote |-> {ROOT_DEFCONFIG}] : io \in SaveFaults}
        ELSE IF cmd = "defconfig"
        THEN {[r |-> load_defconfig(fs, kconfig, args, io),
               wrote |-> {config_file, cmake_config, header_file}] :
                 io \in LoadFaults}
        ELSE {[r |-> run_menuconfig(fs, kconfig, args, edit, script_dir_first),
               wrote |-> IF script_dir_first THEN {} ELSE saved(edit)] :
                 edit \in Edits(kconfig), script_dir_first \in BOOLEAN}

\* main: the action options are parsed, the first command of the chain
\* whose option is given runs, and its result becomes the exit code.
Main ==
    /\ steps < MaxInvocations
    /\ \E given \in SUBSET ActionFlags, args \in PathArgs :
           \E run \in Runs(dispatch(given), args) :
               Invoked(given, dispatch(given), args, run.r, run.wrote)

NextMain == Main

SpecMain == Init /\ [][NextMain]_vars

(***************************************************************************)
(* What the properties below speak of.                                     *)
(***************************************************************************)
ConfigPath == get_config_file(last.args.config_file)

CMakePath == get_cmake_config_file(last.args.cmake_file)

HeaderPath == get_header_config_file(last.args.header_file)

Contains(lines, l) == \E i \in 1..Len(lines) : lines[i] = l

AnyStartsWith(lines, p) == \E i \in 1..Len(lines) : StartsWith(lines[i], p)

\* The configuration a file resolves to under the schema: the file's
\* assignments over the defaults, the defaults alone when it is absent.
SessionOf(file) ==
    IF file.exists
    THEN load_config(Kconfig(kconfig), file.lines)
    ELSE Kconfig(kconfig)

\* The last command generated both artifacts (Generate, or the Generate
\* that LoadMinimal ends with).  Neither changes the configuration file
\* after reading it, so SessionOf(fs[ConfigPath]) is what was rendered.
Generated ==
    /\ kconfig.exists
    /\ last.cmd \in {"generate", "defconfig"}
    /\ last.ok

Switches == {i \in 1..Len(kconfig.syms) : kconfig.syms[i].type \in {BOOL, TRISTATE}}

Tristates == {i \in 1..Len(kconfig.syms) : kconfig.syms[i].type = TRISTATE}

NameOf(i) == kconfig.syms[i].name

ValueOf(i) == str_value(SessionOf(fs[ConfigPath]), i)

\* The lines of the i-th symbol in the two artifacts.
CMakeLineOf(i) == fs[CMakePath].lines[Len(CMakeBanner) + i]

HeaderLineOf(i) == fs[HeaderPath].lines[Len(HeaderBanner) + i]

(***************************************************************************)
(* C1.  Cross-format consistency.                                          *)
(***************************************************************************)
\* C1 as claimed: after a successful Generate, for every BOOL or TRISTATE
\* symbol the build-variable file sets CONFIG_<name> to ON if and only if
\* the header holds an active #define of the symbol's macro, where for a
\* TRISTATE symbol CONFIG_<name>_MODULE counts as the symbol's macro.
C1_OnIffDefinedCountingModule ==
    Generated =>
        \A i \in Switches :
            Contains(fs[CMakePath].lines, "set(CONFIG_" \o NameOf(i) \o " ON)")
            <=> \/ AnyStartsWith(fs[HeaderPath].lines,
                                 "#define CONFIG_" \o NameOf(i) \o " ")
                \/ /\ i \in Tristates
                   /\ AnyStartsWith(fs[HeaderPath].lines,
                                    "#define CONFIG_" \o NameOf(i) \o "_MODULE ")

\* C1 as amended: after a successful Generate, for every BOOL or TRISTATE
\* symbol the symbol's line in the build-variable file sets CONFIG_<name>
\* to ON if and only if the symbol's line in the header is the active
\* "#define CONFIG_<name> 1" of the base macro, and sets it to OFF
\* otherwise; a TRISTATE symbol at "m" is OFF in the build-variable file
\* while its header line defines CONFIG_<name>_MODULE.
C1_OnIffBaseMacroDefined ==
    Generated =>
        \A i \in Switches :
            /\ CMakeLineOf(i) \in {"set(CONFIG_" \o NameOf(i) \o " ON)",
                                   "set(CONFIG_" \o NameOf(i) \o " OFF)"}
            /\ CMakeLineOf(i) = "set(CONFIG_" \o NameOf(i) \o " ON)"
               <=> HeaderLineOf(i) = "#define CONFIG_" \o NameOf(i) \o " 1"
            /\ (i \in Tristates /\ ValueOf(i) = "m") =>
                   /\ CMakeLineOf(i) = "set(CONFIG_" \o NameOf(i) \o " OFF)"
                   /\ HeaderLineOf(i) = "#define CONFIG_" \o NameOf(i) \o "_MODULE 1"

\* Generate has rendered a schema with a TRISTATE at "m" and a BOOL at "n"
\* whose macro has the name of the TRISTATE's _MODULE macro.
C1_Witness ==
    /\ Generated
    /\ \E i \in Tristates :
           /\ ValueOf(i) = "m"
           /\ \E j \in Switches :
                  NameOf(j) = NameOf(i) \o "_MODULE" /\ ValueOf(j) = "n"

(***************************************************************************)
(* C2.  Round trip of the minimal configuration.                           *)
(***************************************************************************)
\* Every symbol of the schema is assigned by the file.
IsFull(file) ==
    /\ file.exists
    /\ \A i \in 1..Len(kconfig.syms) : SessionOf(file).user[i].set

\* C2 as claimed: SaveMinimal and then LoadMinimal, on the same schema and
\* with the same path options, whatever other files exist (a
\* config/defconfig among them), leave a configuration file that resolves
\* every symbol to the value it had in the full configuration file
\* SaveMinimal minimized.
C2_RoundTrip ==
    ( /\ kconfig.exists
      /\ prev.cmd = "savedefconfig" /\ prev.ok
      /\ last.cmd = "defconfig" /\ last.ok
      /\ prev.args = last.args
      /\ IsFull(last.pre[ConfigPath]) )
    => Resolved(SessionOf(fs[ConfigPath])) = Resolved(SessionOf(last.pre[ConfigPath]))

(***************************************************************************)
(* C3.  Failures and earlier artifacts.                                    *)
(***************************************************************************)
\* C3 as claimed: when a command fails, every file written by an earlier
\* successful command still has the content it had before the failing
\* command ran.
C3_FailureKeepsEarlierFiles ==
    (last.cmd # "none" /\ ~last.ok) =>
        \A p \in written : fs[p] = last.pre[p]

(***************************************************************************)
(* C4.  No schema, no artifacts.                                           *)
(***************************************************************************)
\* C4: with no Kconfig file at the project root, Generate, SaveMinimal and
\* LoadMinimal each fail and leave every file as it was, whatever
\* configuration and defconfig files exist.
C4_MissingSchemaWritesNothing ==
    (~kconfig.exists /\ last.cmd \in {"generate", "savedefconfig", "defconfig"})
    => (~last.ok /\ fs = last.pre)

\* LoadMinimal ran without a schema, with a configuration file and both
\* defconfig files in place, after a SaveMinimal.
C4_Witness ==
    /\ ~kconfig.exists
    /\ last.cmd = "defconfig" /\ prev.cmd = "savedefconfig"
    /\ last.pre[ConfigPath].exists
    /\ last.pre[ROOT_DEFCONFIG].exists
    /\ last.pre[CONFIG_DEFCONFIG].exists

(***************************************************************************)
(* C5.  Determinism of Generate.                                           *)
(***************************************************************************)
\* C5: a Generate that succeeds right after a Generate that succeeded with
\* the same path options (so the same schema and configuration file)
\* leaves both artifacts with exactly the content the first run gave them.
C5_GenerateTwice ==
    ( /\ kconfig.exists
      /\ prev.cmd = "generate" /\ prev.ok
      /\ last.cmd = "generate" /\ last.ok
      /\ prev.args = last.args )
    => /\ fs[CMakePath] = last.pre[CMakePath]
       /\ fs[HeaderPath] = last.pre[HeaderPath]

\* Generate ran twice over a configuration file, and wrote artifacts that
\* name a symbol.
C5_Witness ==
    /\ kconfig.exists
    /\ prev.cmd = "generate" /\ prev.ok
    /\ last.cmd = "generate" /\ last.ok
    /\ prev.args = last.args
    /\ fs[ConfigPath].exists
    /\ Len(fs[CMakePath].lines) > Len(CMakeBanner)

(***************************************************************************)
(* C6.  Generate without a configuration file.                             *)
(***************************************************************************)
\* C6: with the schema present and no configuration file, a Generate that
\* meets no write fault succeeds, prints the warning, writes both artifacts
\* with every symbol at its schema default, and does not create the
\* configuration file.
C6_MissingOverrideUsesDefaults ==
    ( /\ kconfig.exists
      /\ last.cmd = "generate"
      /\ ~last.pre[ConfigPath].exists
      /\ last.fault = NoFault )
    => /\ last.ok
       /\ Contains(last.out,
                   "Warning: " \o PathStr(ConfigPath) \o " not found, using defaults")
       /\ fs[CMakePath] = File(cmake_text(Kconfig(kconfig)))
       /\ fs[HeaderPath] = File(header_text(Kconfig(kconfig)))
       /\ ~fs[ConfigPath].exists

\* Generate ran without a configuration file while a defconfig that asks
\* for other values than the defaults lay at the project root.
C6_Witness ==
    /\ kconfig.exists
    /\ last.cmd = "generate" /\ last.ok
    /\ ~last.pre[ConfigPath].exists
    /\ last.pre[ROOT_DEFCONFIG].exists
    /\ Resolved(SessionOf(last.pre[ROOT_DEFCONFIG])) # Resolved(Kconfig(kconfig))

(***************************************************************************)
(* C7.  A TRISTATE at "m" in the header.                                   *)
(***************************************************************************)
HeaderDefines(macro) ==
    \/ Contains(fs[HeaderPath].lines, "#define " \o macro)
    \/ AnyStartsWith(fs[HeaderPath].lines, "#define " \o macro \o " ")

\* C7 as claimed: for every TRISTATE symbol X resolved to "m" the generated
\* header holds "#define CONFIG_X_MODULE 1", holds no active #define of
\* CONFIG_X, and holds the commented line "/* #undef CONFIG_X */".
C7_ModuleWithCommentedUndef ==
    Generated =>
        \A i \in Tristates :
            ValueOf(i) = "m" =>
                /\ Contains(fs[HeaderPath].lines,
                            "#define CONFIG_" \o NameOf(i) \o "_MODULE 1")
                /\ ~HeaderDefines("CONFIG_" \o NameOf(i))
                /\ Contains(fs[HeaderPath].lines,
                            "/* #undef CONFIG_" \o NameOf(i) \o " */")

\* C7 as amended: for every TRISTATE symbol X resolved to "m" the generated
\* header holds "#define CONFIG_X_MODULE 1", holds no active #define of
\* CONFIG_X, and holds no "/* #undef CONFIG_X */" line either: the base
\* macro is not mentioned.
C7_ModuleWithoutBaseMacro ==
    Generated =>
        \A i \in Tristates :
            ValueOf(i) = "m" =>
                /\ Contains(fs[HeaderPath].lines,
                            "#define CONFIG_" \o NameOf(i) \o "_MODULE 1")
                /\ ~HeaderDefines("CONFIG_" \o NameOf(i))
                /\ ~Contains(fs[HeaderPath].lines,
                             "/* #undef CONFIG_" \o NameOf(i) \o " */")

\* Generate has rendered a TRISTATE at "m".
C7_Witness ==
    /\ Generated
    /\ last.cmd = "generate"
    /\ \E i \in Tristates : ValueOf(i) = "m"

(***************************************************************************)
(* C8.  Show.                                                              *)
(***************************************************************************)
\* What Show printed after its three banner lines.
Printed == SubSeq(last.out, Len(ShowBanner(ConfigPath)) + 1, Len(last.out))

\* A comment line: its first character that is not white space is '#'.
IsComment(l) == StartsWith(lstrip(l), "#")

NotComment(l) == ~IsComment(l)

IsShown(l) == strip(l) # "" /\ ~StartsWith(strip(l), "#")

\* Show fails and prints only its advice when there is no configuration
\* file.
ShowFailsWithoutConfig ==
    ~last.pre[ConfigPath].exists =>
        /\ ~last.ok
        /\ Len(last.out) = 1
        /\ StartsWith(last.out[1], "No configuration found at ")

\* C8 as claimed: Show fails and prints nothing of a configuration when
\* there is no configuration file; when there is one it succeeds and
\* prints every line that is not a comment line, exactly as it is in the
\* file and in file order, and no comment line.
C8_ShowPrintsVerbatim ==
    last.cmd = "show" =>
        /\ ShowFailsWithoutConfig
        /\ last.pre[ConfigPath].exists =>
               /\ last.ok
               /\ Printed = SelectSeq(last.pre[ConfigPath].lines, NotComment)

\* C8 as amended: Show fails and prints nothing of a configuration when
\* there is no configuration file; when there is one (and it can be read)
\* it succeeds and prints, in file order, every line whose text without
\* leading and trailing white space is not empty and does not begin with
\* '#', each without its leading and trailing white space; blank lines and
\* comment lines are not printed.
C8_ShowPrintsStripped ==
    last.cmd = "show" =>
        /\ ShowFailsWithoutConfig
        /\ last.pre[ConfigPath].exists =>
               LET kept == SelectSeq(last.pre[ConfigPath].lines, IsShown)
               IN  /\ last.ok
                   /\ Printed = [i \in 1..Len(kept) |-> strip(kept[i])]

\* Show printed a file with a blank line, an indented comment, and
\* assignments with white space before and after them.
C8_Witness ==
    /\ last.cmd = "show" /\ last.ok
    /\ \E i \in 1..Len(fs[ConfigPath].lines) : fs[ConfigPath].lines[i] = ""
    /\ \E i \in 1..Len(fs[ConfigPath].lines) :
           LET l == fs[ConfigPath].lines[i]
           IN  IsComment(l) /\ ~StartsWith(l, "#")
    /\ \E i \in 1..Len(fs[ConfigPath].lines) :
           LET l == fs[ConfigPath].lines[i]
           IN  IsShown(l) /\ rstrip(l) # l
    /\ \E i \in 1..Len(fs[ConfigPath].lines) :
           LET l == fs[ConfigPath].lines[i]
           IN  IsShown(l) /\ lstrip(l) # l

(***************************************************************************)
(* C9.  SaveMinimal.                                                       *)
(***************************************************************************)
\* lines is the minimal configuration of kconf: loaded over the schema it
\* gives every symbol the value it has in kconf, and it has one line for
\* each symbol that is not at its default and no other line.
IsMinimalOf(lines, kconf) ==
    /\ Resolved(load_config(Kconfig(kconfig), lines)) = Resolved(kconf)
    /\ Len(lines) =
           Cardinality({i \in 1..Len(kconf.syms) :
                            str_value(kconf, i) # kconf.syms[i].default})

\* C9: with the schema present, SaveMinimal fails and leaves every file
\* (an existing defconfig among them) as it was when there is no
\* configuration file; when there is one, and no write fault, it succeeds
\* and the defconfig of the project root holds the minimal configuration of
\* what the configuration file resolves to, whatever the path options, and
\* no other file changes.
C9_SaveMinimal ==
    (kconfig.exists /\ last.cmd = "savedefconfig") =>
        /\ ~last.pre[ConfigPath].exists => (~last.ok /\ fs = last.pre)
        /\ (last.pre[ConfigPath].exists /\ last.fault = NoFault) =>
               /\ last.ok
               /\ fs["defconfig"].exists
               /\ IsMinimalOf(fs["defconfig"].lines, SessionOf(last.pre[ConfigPath]))
               /\ \A p \in Paths \ {"defconfig"} : fs[p] = last.pre[p]

\* SaveMinimal succeeded with a --config-file option, on a configuration
\* with a symbol off its default and a symbol at its default, while a
\* config/defconfig existed.
C9_Witness ==
    /\ kconfig.exists
    /\ last.cmd = "savedefconfig" /\ last.ok
    /\ last.args.config_file # ""
    /\ fs[CONFIG_DEFCONFIG].exists
    /\ Len(fs["defconfig"].lines) > 0
    /\ Len(fs["defconfig"].lines) < Len(kconfig.syms)

(***************************************************************************)
(* C10.  LoadMinimal.                                                      *)
(***************************************************************************)
\* The minimal configuration LoadMinimal is to apply, given the files it
\* starts from: config/defconfig, else the root defconfig, else none.
MinimalSource(files) ==
    IF files[CONFIG_DEFCONFIG].exists THEN files[CONFIG_DEFCONFIG]
    ELSE IF files[ROOT_DEFCONFIG].exists THEN files[ROOT_DEFCONFIG]
    ELSE Absent

\* C10: with the schema present, LoadMinimal applies config/defconfig if it
\* exists, else the root defconfig if it exists, else nothing (with a
\* warning); unless writing the configuration file itself fails, the
\* configuration file then holds an assignment of every symbol with the
\* values so resolved, also when the Generate that follows fails; the
\* result is success exactly when that Generate reports success; and after
\* success both artifacts are the rendering of the values in the
\* configuration file.
C10_LoadMinimal ==
    (kconfig.exists /\ last.cmd = "defconfig") =>
        LET source == MinimalSource(last.pre)
            want == Resolved(SessionOf(source))
        IN  /\ ~source.exists =>
                   Contains(last.out, "No defconfig found, using Kconfig defaults")
            /\ last.fault.at \notin {"config_open", "config_write"} =>
                   /\ IsFull(fs[ConfigPath])
                   /\ Resolved(SessionOf(fs[ConfigPath])) = want
            /\ last.ok <=>
                   Contains(last.out, "Configuration files generated successfully:")
            /\ last.ok =>
                   /\ last.fault = NoFault
                   /\ fs[CMakePath] = File(cmake_text(SessionOf(fs[ConfigPath])))
                   /\ fs[HeaderPath] = File(header_text(SessionOf(fs[ConfigPath])))
                   /\ \A i \in 1..Len(kconfig.syms) : ValueOf(i) = want[i]

\* LoadMinimal succeeded with both defconfig files in place, and they ask
\* for different configurations.
C10_Witness ==
    /\ kconfig.exists
    /\ last.cmd = "defconfig" /\ last.ok
    /\ last.pre[CONFIG_DEFCONFIG].exists
    /\ last.pre[ROOT_DEFCONFIG].exists
    /\ Resolved(SessionOf(last.pre[CONFIG_DEFCONFIG]))
           # Resolved(SessionOf(last.pre[ROOT_DEFCONFIG]))

(***************************************************************************)
(* C11.  The build-variable file, line by line.                            *)
(***************************************************************************)
\* The value the build-variable file gives the i-th symbol of the resolved
\* configuration.
CMakeValueOf(i) ==
    IF i \in Switches
    THEN IF ValueOf(i) = "y" THEN "ON" ELSE "OFF"
    ELSE IF kconfig.syms[i].type \in {INT, HEX}
    THEN ValueOf(i)
    ELSE "\"" \o ValueOf(i) \o "\""

\* The lines of the build-variable file that set the i-th symbol.
SetLinesOf(i) ==
    {j \in 1..Len(fs[CMakePath].lines) :
        StartsWith(fs[CMakePath].lines[j], "set(CONFIG_" \o NameOf(i) \o " ")}

\* C11: after a successful Generate the build-variable file is the banner
\* followed by exactly one set(CONFIG_<name> ...) line for every symbol of
\* the resolved configuration and no other set line, in the order the
\* schema declares the symbols; the value is ON when a BOOL or TRISTATE
\* symbol is "y" and OFF otherwise, the value itself without quotes for
\* INT and HEX, and the value in double quotes for STRING.
C11_OneSetLinePerSymbol ==
    Generated =>
        LET lines == fs[CMakePath].lines
            banner == Len(CMakeBanner)
        IN  /\ fs[CMakePath].exists
            /\ Len(lines) = banner + Len(kconfig.syms)
            /\ SubSeq(lines, 1, banner) = CMakeBanner
            /\ \A j \in 1..banner : ~StartsWith(lines[j], "set(")
            /\ \A i \in 1..Len(kconfig.syms) :
                   /\ lines[banner + i] =
                          "set(CONFIG_" \o NameOf(i) \o " " \o CMakeValueOf(i) \o ")"
                   /\ SetLinesOf(i) = {banner + i}

\* Generate has rendered the example's schema with BUILD_EXAMPLES at "y":
\* a switch that is ON, an INT and a STRING are in the file.
C11_Witness ==
    /\ Generated
    /\ kconfig.syms = ExampleSchema
    /\ ValueOf(1) = "y"
    /\ CMakeLineOf(1) = "set(CONFIG_BUILD_EXAMPLES ON)"
    /\ StartsWith(CMakeLineOf(2), "set(CONFIG_MAX_TASKS ")
    /\ StartsWith(CMakeLineOf(3), "set(CONFIG_DEVICE_NAME \"")

(***************************************************************************)
(* C13.  What each command leaves alone.                                   *)
(***************************************************************************)
\* The four commands of the command line that work on files without an
\* editor.
FileCommands == {"show", "generate", "savedefconfig", "defconfig"}

\* The paths whose file is not what it was before the last command.
Touched == {p \in Paths : fs[p] # last.pre[p]}

DispatchOrder == << "gui", "generate", "show", "savedefconfig", "defconfig" >>

\* The first option of the order that was given, the interactive editor
\* when none was.
FirstMatch ==
    IF \E i \in 1..Len(DispatchOrder) : DispatchOrder[i] \in flags
    THEN DispatchOrder[CHOOSE i \in 1..Len(DispatchOrder) :
                           /\ DispatchOrder[i] \in flags
                           /\ \A j \in 1..(i - 1) : DispatchOrder[j] \notin flags]
    ELSE "menuconfig"

\* C12: for every invocation of the command line with any combination of
\* action options, the one command that ran is the first match in the
\* order gui, generate, show, savedefconfig, defconfig, else the
\* interactive menuconfig, and the exit code of the process is 0 if that
\* command succeeded and 1 if it failed in any way.
C12_FirstMatchAndExitCode ==
    last.cmd # "none" =>
        /\ last.cmd = FirstMatch
        /\ last.ok => exit = 0
        /\ ~last.ok => exit = 1

====
